---------------------------- MODULE Spec2Model ----------------------------
(***************************************************************************)
(* GoConnect desktop client: the daemon IPC client bridge.                 *)
(*                                                                         *)
(*   commands.rs  DaemonState (the connection cache: a tokio Mutex around  *)
(*                Option<DaemonClient>), get_client, the tauri commands    *)
(*   lib.rs       the background task that polls the daemon's status for   *)
(*                the tray menu                                            *)
(*   daemon.rs    DaemonClient: connect, load_ipc_token, add_auth and the  *)
(*                service facades with their wire-to-record mappings       *)
(*                                                                         *)
(* Spec        the commands as concurrent tasks over the shared cache,     *)
(*             with the daemon and the token file as the environment.      *)
(* FairSpec    Spec with the scheduling the tokio runtime gives its tasks. *)
(* PollSpec    the status poll loop beside the commands.                   *)
(* FacadeSpec  the pure parts of the facades (add_auth, the mappings, the  *)
(*             transfer-stats fold) applied to bounded inputs.             *)
(***************************************************************************)
EXTENDS Integers, Sequences, FiniteSets

(***************************************************************************)
(* Bounds of the model.                                                    *)
(***************************************************************************)
\* Command invocations started in one behaviour (each makes at most one
\* connection, so channel ids stay within 1..MaxOps).
MaxOps == 3

\* The tasks that run tauri commands concurrently.
Tasks == {"ui1", "ui2"}

\* The background task spawned in setup(): the status poll loop.
Poller == "poller"

Procs == Tasks \cup {Poller}

NoTask == "none"

(***************************************************************************)
(* Option and Result values.  Option<T> is a sequence of length <= 1, a    *)
(* Result carries its value or its error the same way.                     *)
(***************************************************************************)
None == <<>>

Some(x) == <<x>>

Unset == [tag |-> "Unset", val |-> <<>>, err |-> <<>>]

Ok(v) == [tag |-> "Ok", val |-> <<v>>, err |-> <<>>]

Err(e) == [tag |-> "Err", val |-> <<>>, err |-> <<e>>]

IsOk(r) == r.tag = "Ok"

IsErr(r) == r.tag = "Err"

(***************************************************************************)
(* DaemonError and its Display text (thiserror's #[error("...: {0}")]).    *)
(***************************************************************************)
TokenNotFound(d) == [variant |-> "TokenNotFound", detail |-> d]

Connection(d) == [variant |-> "Connection", detail |-> d]

Rpc(status) == [variant |-> "Rpc", detail |-> status]

InvalidResponse(d) == [variant |-> "InvalidResponse", detail |-> d]

ToString(e) ==
    CASE e.variant = "TokenNotFound" ->
            <<"Daemon not running or token file missing", e.detail>>
      [] e.variant = "Connection" -> <<"Failed to connect to daemon", e.detail>>
      [] e.variant = "Rpc" -> <<"gRPC error", e.detail>>
      [] e.variant = "InvalidResponse" -> <<"Invalid response", e.detail>>

(***************************************************************************)
(* Strings are sequences of byte values.  str::trim drops leading and      *)
(* trailing white space (tab, LF, VT, FF, CR, space).                      *)
(***************************************************************************)
IsWhitespace(b) == b \in {9, 10, 11, 12, 13, 32}

RECURSIVE TrimStart(_)
TrimStart(s) ==
    IF s # <<>> /\ IsWhitespace(Head(s)) THEN TrimStart(Tail(s)) ELSE s

RECURSIVE TrimEnd(_)
TrimEnd(s) ==
    IF s # <<>> /\ IsWhitespace(s[Len(s)])
    THEN TrimEnd(SubSeq(s, 1, Len(s) - 1))
    ELSE s

Trim(s) == TrimEnd(TrimStart(s))

\* The token file as the daemon writes it: "a" and a trailing newline.
TokenFileContents == <<97, 10>>

VARIABLES
    guard,          \* DaemonState.0: the cached Option<DaemonClient>
    lock,           \* the task holding the tokio Mutex, or NoTask
    daemonUp,       \* the daemon listens on its endpoint
    tokenFile,      \* Option: the contents of ipc.token
    nextChan,       \* the id the next established Channel gets
    started,        \* command invocations started so far
    op,             \* per task: the command it runs
    pc,             \* per task: its position in the command
    loaded,         \* per task: connect()'s local `token`
    connRes,        \* per task: what DaemonClient::connect() returned
    client,         \* per task: Option, the DaemonClient the command holds
    rpcRes,         \* per task: what client.get_status() returned
    ret,            \* per task: what the command returned
    reads,          \* per task: token-file reads of this invocation
    conns,          \* per task: connection attempts of this invocation
    rpcs,           \* per task: RPCs sent by this invocation
    sawUp,          \* per task: the daemon was up at some point of the invocation
    cachedAtStart,  \* per task: the cache when the invocation was issued
    overlap,        \* per task: the tasks inside get_client when it was issued
    trayText,       \* the text of the tray menu's status item
    sleeping,       \* Option: the duration the poll loop is sleeping for
    fcall,          \* FacadeSpec: the facade function applied and its input
    fret            \* FacadeSpec: what it returned

envVars == <<daemonUp, tokenFile>>

cacheVars == <<guard, lock, nextChan, started>>

taskVars == <<op, pc, loaded, connRes, client, rpcRes, ret>>

pollVars == <<trayText, sleeping>>

histVars == <<reads, conns, rpcs, sawUp, cachedAtStart, overlap>>

facadeVars == <<fcall, fret>>

vars == <<envVars, cacheVars, taskVars, histVars, pollVars, facadeVars>>

NoCall == [fn |-> "none"]

Init ==
    /\ guard = None
    /\ lock = NoTask
    /\ daemonUp \in BOOLEAN
    /\ tokenFile \in {None, Some(TokenFileContents)}
    /\ nextChan = 1
    /\ started = 0
    /\ op = [t \in Procs |-> IF t = Poller THEN "poll" ELSE "none"]
    /\ pc = [t \in Procs |-> IF t = Poller THEN "token" ELSE "idle"]
    /\ loaded = [t \in Procs |-> None]
    /\ connRes = [t \in Procs |-> Unset]
    /\ client = [t \in Procs |-> None]
    /\ rpcRes = [t \in Procs |-> Unset]
    /\ ret = [t \in Procs |-> Unset]
    /\ reads = [t \in Procs |-> 0]
    /\ conns = [t \in Procs |-> 0]
    /\ rpcs = [t \in Procs |-> 0]
    /\ sawUp = [t \in Procs |-> FALSE]
    /\ cachedAtStart = [t \in Procs |-> None]
    /\ overlap = [t \in Procs |-> {}]
    /\ trayText = "Status: Checking..."
    /\ sleeping = None
    /\ fcall = NoCall
    /\ fret = Unset

(***************************************************************************)
(* The environment: the daemon process and its token file.                 *)
(***************************************************************************)
DaemonStop ==
    /\ daemonUp
    /\ daemonUp' = FALSE
    /\ UNCHANGED <<tokenFile, cacheVars, taskVars, histVars, pollVars, facadeVars>>

DaemonStart ==
    /\ ~daemonUp
    /\ daemonUp' = TRUE
    /\ sawUp' = [t \in Procs |-> t \in Tasks /\ pc[t] # "idle"]
    /\ UNCHANGED <<tokenFile, cacheVars, taskVars, pollVars, facadeVars>>
    /\ UNCHANGED <<reads, conns, rpcs, cachedAtStart, overlap>>

TokenWrite ==
    /\ tokenFile = None
    /\ tokenFile' = Some(TokenFileContents)
    /\ UNCHANGED <<daemonUp, cacheVars, taskVars, histVars, pollVars, facadeVars>>

TokenRemove ==
    /\ tokenFile # None
    /\ tokenFile' = None
    /\ UNCHANGED <<daemonUp, cacheVars, taskVars, histVars, pollVars, facadeVars>>

(***************************************************************************)
(* A tauri command is invoked.                                             *)
(***************************************************************************)
InGetClient(u) == op[u] = "cmd" /\ pc[u] \in {"lock", "token", "connect", "connected"}

\* daemon_get_status (and every other command that goes through get_client)
StartCommand(t) ==
    /\ pc[t] = "idle"
    /\ started < MaxOps
    /\ started' = started + 1
    /\ op' = [op EXCEPT ![t] = "cmd"]
    /\ pc' = [pc EXCEPT ![t] = "lock"]
    /\ sawUp' = [sawUp EXCEPT ![t] = daemonUp]
    /\ cachedAtStart' = [cachedAtStart EXCEPT ![t] = guard]
    /\ overlap' = [overlap EXCEPT ![t] = {u \in Tasks \ {t} : InGetClient(u)}]
    /\ UNCHANGED <<envVars, guard, lock, nextChan, pollVars, facadeVars>>
    /\ UNCHANGED <<loaded, connRes, client, rpcRes, ret, reads, conns, rpcs>>

\* daemon_is_running
StartProbe(t) ==
    /\ pc[t] = "idle"
    /\ started < MaxOps
    /\ started' = started + 1
    /\ op' = [op EXCEPT ![t] = "probe"]
    /\ pc' = [pc EXCEPT ![t] = "token"]
    /\ sawUp' = [sawUp EXCEPT ![t] = daemonUp]
    /\ cachedAtStart' = [cachedAtStart EXCEPT ![t] = guard]
    /\ overlap' = [overlap EXCEPT ![t] = {}]
    /\ UNCHANGED <<envVars, guard, lock, nextChan, pollVars, facadeVars>>
    /\ UNCHANGED <<loaded, connRes, client, rpcRes, ret, reads, conns, rpcs>>

(***************************************************************************)
(* get_client: lock the cache, return the cached client or connect, store  *)
(* and return the new one.  The guard is dropped when get_client returns.  *)
(***************************************************************************)
\* get_client without the mutual exclusion: the check runs whoever holds the lock.
GetClientLockNoMutex(t) ==
    /\ op[t] = "cmd" /\ pc[t] = "lock"
    /\ IF guard # None
       THEN /\ client' = [client EXCEPT ![t] = guard]
            /\ pc' = [pc EXCEPT ![t] = "call"]
            /\ UNCHANGED lock
       ELSE /\ lock' = t
            /\ pc' = [pc EXCEPT ![t] = "token"]
            /\ UNCHANGED client
    /\ UNCHANGED <<envVars, guard, nextChan, started, pollVars, facadeVars, histVars>>
    /\ UNCHANGED <<op, loaded, connRes, rpcRes, ret>>

\* get_client that never looks at the cached client and always connects.
GetClientLockNoCache(t) ==
    /\ op[t] = "cmd" /\ pc[t] = "lock"
    /\ lock = NoTask
    /\ lock' = t
    /\ pc' = [pc EXCEPT ![t] = "token"]
    /\ UNCHANGED <<envVars, guard, nextChan, started, pollVars, facadeVars, histVars>>
    /\ UNCHANGED <<op, loaded, connRes, client, rpcRes, ret>>

GetClientLock(t) ==
    /\ op[t] = "cmd" /\ pc[t] = "lock"
    /\ lock = NoTask
    /\ IF guard # None
       THEN /\ client' = [client EXCEPT ![t] = guard]
            /\ pc' = [pc EXCEPT ![t] = "call"]
            /\ UNCHANGED lock
       ELSE /\ lock' = t
            /\ pc' = [pc EXCEPT ![t] = "token"]
            /\ UNCHANGED client
    /\ UNCHANGED <<envVars, guard, nextChan, started, pollVars, facadeVars, histVars>>
    /\ UNCHANGED <<op, loaded, connRes, rpcRes, ret>>

\* get_client whose guard outlives the call (the lock is kept on success).
GetClientStoreKeepLock(t) ==
    /\ op[t] = "cmd" /\ pc[t] = "connected"
    /\ IF IsOk(connRes[t])
       THEN /\ guard' = connRes[t].val
            /\ client' = [client EXCEPT ![t] = connRes[t].val]
            /\ pc' = [pc EXCEPT ![t] = "call"]
            /\ UNCHANGED <<ret, lock>>
       ELSE /\ ret' = [ret EXCEPT ![t] = Err(ToString(connRes[t].err[1]))]
            /\ pc' = [pc EXCEPT ![t] = "done"]
            /\ lock' = NoTask
            /\ UNCHANGED <<guard, client>>
    /\ UNCHANGED <<envVars, nextChan, started, pollVars, facadeVars, histVars>>
    /\ UNCHANGED <<op, loaded, connRes, rpcRes>>

\* get_client that remembers a failed connect: the cache is left holding a
\* client without a channel.
GetClientStoreCacheFailure(t) ==
    /\ op[t] = "cmd" /\ pc[t] = "connected"
    /\ lock' = NoTask
    /\ IF IsOk(connRes[t])
       THEN /\ guard' = connRes[t].val
            /\ client' = [client EXCEPT ![t] = connRes[t].val]
            /\ pc' = [pc EXCEPT ![t] = "call"]
            /\ UNCHANGED ret
       ELSE /\ ret' = [ret EXCEPT ![t] = Err(ToString(connRes[t].err[1]))]
            /\ pc' = [pc EXCEPT ![t] = "done"]
            /\ guard' = Some([channel |-> 0, token |-> <<>>])
            /\ UNCHANGED client
    /\ UNCHANGED <<envVars, nextChan, started, pollVars, facadeVars, histVars>>
    /\ UNCHANGED <<op, loaded, connRes, rpcRes>>

\* get_client that returns the error of a failed connect with the guard
\* still alive (the lock is released on the success path only).
GetClientStoreLeakOnError(t) ==
    /\ op[t] = "cmd" /\ pc[t] = "connected"
    /\ IF IsOk(connRes[t])
       THEN /\ guard' = connRes[t].val
            /\ client' = [client EXCEPT ![t] = connRes[t].val]
            /\ pc' = [pc EXCEPT ![t] = "call"]
            /\ lock' = NoTask
            /\ UNCHANGED ret
       ELSE /\ ret' = [ret EXCEPT ![t] = Err(ToString(connRes[t].err[1]))]
            /\ pc' = [pc EXCEPT ![t] = "done"]
            /\ UNCHANGED <<guard, client, lock>>
    /\ UNCHANGED <<envVars, nextChan, started, pollVars, facadeVars, histVars>>
    /\ UNCHANGED <<op, loaded, connRes, rpcRes>>

GetClientStore(t) ==
    /\ op[t] = "cmd" /\ pc[t] = "connected"
    /\ lock' = NoTask
    /\ IF IsOk(connRes[t])
       THEN /\ guard' = connRes[t].val
            /\ client' = [client EXCEPT ![t] = connRes[t].val]
            /\ pc' = [pc EXCEPT ![t] = "call"]
            /\ UNCHANGED ret
       ELSE /\ ret' = [ret EXCEPT ![t] = Err(ToString(connRes[t].err[1]))]
            /\ pc' = [pc EXCEPT ![t] = "done"]
            /\ UNCHANGED <<guard, client>>
    /\ UNCHANGED <<envVars, nextChan, started, pollVars, facadeVars, histVars>>
    /\ UNCHANGED <<op, loaded, connRes, rpcRes>>

(***************************************************************************)
(* DaemonClient::connect: load the token, then connect the channel.        *)
(***************************************************************************)
LoadIpcToken(t) ==
    /\ pc[t] = "token"
    /\ reads' = [reads EXCEPT ![t] = @ + 1]
    /\ IF tokenFile = None
       THEN /\ connRes' = [connRes EXCEPT ![t] = Err(TokenNotFound("read"))]
            /\ pc' = [pc EXCEPT ![t] = "connected"]
            /\ UNCHANGED loaded
       ELSE /\ loaded' = [loaded EXCEPT ![t] = Some(Trim(tokenFile[1]))]
            /\ pc' = [pc EXCEPT ![t] = "connect"]
            /\ UNCHANGED connRes
    /\ UNCHANGED <<envVars, cacheVars, pollVars, facadeVars>>
    /\ UNCHANGED <<op, client, rpcRes, ret, conns, rpcs, sawUp, cachedAtStart, overlap>>

\* A connect that tries again when the daemon refuses the connection.
ChannelConnectRetry(t) ==
    /\ pc[t] = "connect"
    /\ conns' = [conns EXCEPT ![t] = @ + 1]
    /\ IF daemonUp
       THEN /\ connRes' = [connRes EXCEPT ![t] =
                            Ok([channel |-> IF t = Poller THEN 0 ELSE nextChan,
                                token |-> loaded[t][1]])]
            /\ nextChan' = IF t = Poller THEN nextChan ELSE nextChan + 1
            /\ pc' = [pc EXCEPT ![t] = "connected"]
       ELSE /\ UNCHANGED <<connRes, nextChan, pc>>
    /\ UNCHANGED <<envVars, guard, lock, started, pollVars, facadeVars>>
    /\ UNCHANGED <<op, loaded, client, rpcRes, ret, reads, rpcs, sawUp, cachedAtStart, overlap>>

\* The connect succeeds exactly when the daemon listens at that moment (a
\* connect that fails against a running daemon is a daemon that went away
\* and came back: DaemonStop and DaemonStart are always free to happen).
\* The channels of the commands are numbered from 1 in the order they are
\* established; the poll loop drops its channel at the end of every iteration,
\* so at most one of its channels exists at a time: it is numbered 0.
ChannelConnect(t) ==
    /\ pc[t] = "connect"
    /\ conns' = [conns EXCEPT ![t] = @ + 1]
    /\ IF daemonUp
       THEN /\ connRes' = [connRes EXCEPT ![t] =
                            Ok([channel |-> IF t = Poller THEN 0 ELSE nextChan,
                                token |-> loaded[t][1]])]
            /\ nextChan' = IF t = Poller THEN nextChan ELSE nextChan + 1
       ELSE /\ connRes' = [connRes EXCEPT ![t] = Err(Connection("refused"))]
            /\ UNCHANGED nextChan
    /\ pc' = [pc EXCEPT ![t] = "connected"]
    /\ UNCHANGED <<envVars, guard, lock, started, pollVars, facadeVars>>
    /\ UNCHANGED <<op, loaded, client, rpcRes, ret, reads, rpcs, sawUp, cachedAtStart, overlap>>

(***************************************************************************)
(* client.get_status(): one request on the client's channel.               *)
(***************************************************************************)
RpcSend(t) ==
    /\ pc[t] = "call"
    /\ rpcs' = [rpcs EXCEPT ![t] = @ + 1]
    /\ pc' = [pc EXCEPT ![t] = "wait"]
    /\ UNCHANGED <<envVars, cacheVars, pollVars, facadeVars>>
    /\ UNCHANGED <<op, loaded, connRes, client, rpcRes, ret>>
    /\ UNCHANGED <<reads, conns, sawUp, cachedAtStart, overlap>>

RpcComplete(t) ==
    /\ pc[t] = "wait"
    /\ \E r \in IF daemonUp
                THEN {Ok("DaemonStatus"), Err(Rpc("Internal"))}
                ELSE {Err(Rpc("Unavailable"))} :
          rpcRes' = [rpcRes EXCEPT ![t] = r]
    /\ pc' = [pc EXCEPT ![t] = "replied"]
    /\ UNCHANGED <<envVars, cacheVars, pollVars, facadeVars, histVars>>
    /\ UNCHANGED <<op, loaded, connRes, client, ret>>

\* A command that drops the cached client when its call fails.
FacadeReturnInvalidate(t) ==
    /\ op[t] = "cmd" /\ pc[t] = "replied"
    /\ ret' = [ret EXCEPT ![t] =
                IF IsOk(rpcRes[t])
                THEN Ok(rpcRes[t].val[1])
                ELSE Err(ToString(rpcRes[t].err[1]))]
    /\ guard' = IF IsOk(rpcRes[t]) THEN guard ELSE None
    /\ pc' = [pc EXCEPT ![t] = "done"]
    /\ UNCHANGED <<envVars, lock, nextChan, started, pollVars, facadeVars, histVars>>
    /\ UNCHANGED <<op, loaded, connRes, client, rpcRes>>

\* daemon_get_status: client.get_status().await.map_err(|e| e.to_string())
FacadeReturn(t) ==
    /\ op[t] = "cmd" /\ pc[t] = "replied"
    /\ ret' = [ret EXCEPT ![t] =
                IF IsOk(rpcRes[t])
                THEN Ok(rpcRes[t].val[1])
                ELSE Err(ToString(rpcRes[t].err[1]))]
    /\ pc' = [pc EXCEPT ![t] = "done"]
    /\ UNCHANGED <<envVars, cacheVars, pollVars, facadeVars, histVars>>
    /\ UNCHANGED <<op, loaded, connRes, client, rpcRes>>

(***************************************************************************)
(* daemon_is_running: a connect of its own, then get_status; every error   *)
(* becomes Ok(false).                                                      *)
(***************************************************************************)
\* A probe that answers from the cache when its own connect fails.
IsRunningFromCache(t) ==
    /\ op[t] = "probe" /\ pc[t] = "connected"
    /\ IF IsOk(connRes[t])
       THEN /\ client' = [client EXCEPT ![t] = connRes[t].val]
            /\ pc' = [pc EXCEPT ![t] = "call"]
            /\ UNCHANGED ret
       ELSE /\ ret' = [ret EXCEPT ![t] = Ok(guard # None)]
            /\ pc' = [pc EXCEPT ![t] = "done"]
            /\ UNCHANGED client
    /\ UNCHANGED <<envVars, cacheVars, pollVars, facadeVars, histVars>>
    /\ UNCHANGED <<op, loaded, connRes, rpcRes>>

IsRunningConnected(t) ==
    /\ op[t] = "probe" /\ pc[t] = "connected"
    /\ IF IsOk(connRes[t])
       THEN /\ client' = [client EXCEPT ![t] = connRes[t].val]
            /\ pc' = [pc EXCEPT ![t] = "call"]
            /\ UNCHANGED ret
       ELSE /\ ret' = [ret EXCEPT ![t] = Ok(FALSE)]
            /\ pc' = [pc EXCEPT ![t] = "done"]
            /\ UNCHANGED client
    /\ UNCHANGED <<envVars, cacheVars, pollVars, facadeVars, histVars>>
    /\ UNCHANGED <<op, loaded, connRes, rpcRes>>

\* A probe that propagates the status call's error, as the other commands do.
IsRunningReturnPropagate(t) ==
    /\ op[t] = "probe" /\ pc[t] = "replied"
    /\ ret' = [ret EXCEPT ![t] =
                IF IsOk(rpcRes[t]) THEN Ok(TRUE) ELSE Err(ToString(rpcRes[t].err[1]))]
    /\ pc' = [pc EXCEPT ![t] = "done"]
    /\ UNCHANGED <<envVars, cacheVars, pollVars, facadeVars, histVars>>
    /\ UNCHANGED <<op, loaded, connRes, client, rpcRes>>

IsRunningReturn(t) ==
    /\ op[t] = "probe" /\ pc[t] = "replied"
    /\ ret' = [ret EXCEPT ![t] = Ok(IsOk(rpcRes[t]))]
    /\ pc' = [pc EXCEPT ![t] = "done"]
    /\ UNCHANGED <<envVars, cacheVars, pollVars, facadeVars, histVars>>
    /\ UNCHANGED <<op, loaded, connRes, client, rpcRes>>

(***************************************************************************)
(* The command's result has been delivered; the task is free again.        *)
(***************************************************************************)
Finish(t) ==
    /\ pc[t] = "done"
    /\ pc' = [pc EXCEPT ![t] = "idle"]
    /\ op' = [op EXCEPT ![t] = "none"]
    /\ loaded' = [loaded EXCEPT ![t] = None]
    /\ connRes' = [connRes EXCEPT ![t] = Unset]
    /\ client' = [client EXCEPT ![t] = None]
    /\ rpcRes' = [rpcRes EXCEPT ![t] = Unset]
    /\ ret' = [ret EXCEPT ![t] = Unset]
    /\ reads' = [reads EXCEPT ![t] = 0]
    /\ conns' = [conns EXCEPT ![t] = 0]
    /\ rpcs' = [rpcs EXCEPT ![t] = 0]
    /\ sawUp' = [sawUp EXCEPT ![t] = FALSE]
    /\ cachedAtStart' = [cachedAtStart EXCEPT ![t] = None]
    /\ overlap' = [u \in Procs |-> IF u = t THEN {} ELSE overlap[u] \ {t}]
    /\ UNCHANGED <<envVars, cacheVars, pollVars, facadeVars>>

(***************************************************************************)
(* The status poll loop of setup(): connect, get_status, set the text of   *)
(* the tray's status item, sleep, and again.  Its connect and its status   *)
(* call are the steps the commands take (LoadIpcToken, ChannelConnect,     *)
(* RpcSend, RpcComplete); the client and the results are locals of one     *)
(* iteration and are dropped before the sleep.                             *)
(***************************************************************************)
\* tokio::time::sleep(std::time::Duration::from_secs(5))
POLL_INTERVAL_SECS == 5

\* A poll loop that puts the client of a successful connect into the cache.
PollConnectedPopulate ==
    /\ op[Poller] = "poll" /\ pc[Poller] = "connected"
    /\ IF IsOk(connRes[Poller])
       THEN /\ client' = [client EXCEPT ![Poller] = connRes[Poller].val]
            /\ guard' = connRes[Poller].val
            /\ pc' = [pc EXCEPT ![Poller] = "call"]
            /\ UNCHANGED <<pollVars, loaded, connRes, reads, conns>>
       ELSE /\ trayText' = "Status: Daemon Stopped"
            /\ sleeping' = Some(POLL_INTERVAL_SECS)
            /\ pc' = [pc EXCEPT ![Poller] = "sleep"]
            /\ loaded' = [loaded EXCEPT ![Poller] = None]
            /\ connRes' = [connRes EXCEPT ![Poller] = Unset]
            /\ reads' = [reads EXCEPT ![Poller] = 0]
            /\ conns' = [conns EXCEPT ![Poller] = 0]
            /\ UNCHANGED <<client, guard>>
    /\ UNCHANGED <<envVars, lock, nextChan, started, facadeVars>>
    /\ UNCHANGED <<op, rpcRes, ret, rpcs, sawUp, cachedAtStart, overlap>>

\* Ok(client) => client.get_status() ..., Err(_) => "Status: Daemon Stopped"
PollConnected ==
    /\ op[Poller] = "poll" /\ pc[Poller] = "connected"
    /\ IF IsOk(connRes[Poller])
       THEN /\ client' = [client EXCEPT ![Poller] = connRes[Poller].val]
            /\ pc' = [pc EXCEPT ![Poller] = "call"]
            /\ UNCHANGED <<pollVars, loaded, connRes, reads, conns>>
       ELSE /\ trayText' = "Status: Daemon Stopped"
            /\ sleeping' = Some(POLL_INTERVAL_SECS)
            /\ pc' = [pc EXCEPT ![Poller] = "sleep"]
            /\ loaded' = [loaded EXCEPT ![Poller] = None]
            /\ connRes' = [connRes EXCEPT ![Poller] = Unset]
            /\ reads' = [reads EXCEPT ![Poller] = 0]
            /\ conns' = [conns EXCEPT ![Poller] = 0]
            /\ UNCHANGED client
    /\ UNCHANGED <<envVars, cacheVars, facadeVars>>
    /\ UNCHANGED <<op, rpcRes, ret, rpcs, sawUp, cachedAtStart, overlap>>

\* The arms of the get_status match, set_text and the start of the sleep.
\* status.connected and status.network_name are fields of the reply.
PollSetText ==
    /\ op[Poller] = "poll" /\ pc[Poller] = "replied"
    /\ \E connected \in BOOLEAN :
          trayText' = IF IsOk(rpcRes[Poller])
                      THEN IF connected
                           THEN "Status: Connected (Team A)"
                           ELSE "Status: Disconnected"
                      ELSE "Status: Daemon Error"
    /\ sleeping' = Some(POLL_INTERVAL_SECS)
    /\ pc' = [pc EXCEPT ![Poller] = "sleep"]
    /\ loaded' = [loaded EXCEPT ![Poller] = None]
    /\ connRes' = [connRes EXCEPT ![Poller] = Unset]
    /\ client' = [client EXCEPT ![Poller] = None]
    /\ rpcRes' = [rpcRes EXCEPT ![Poller] = Unset]
    /\ reads' = [reads EXCEPT ![Poller] = 0]
    /\ conns' = [conns EXCEPT ![Poller] = 0]
    /\ rpcs' = [rpcs EXCEPT ![Poller] = 0]
    /\ UNCHANGED <<envVars, cacheVars, facadeVars>>
    /\ UNCHANGED <<op, ret, sawUp, cachedAtStart, overlap>>

\* A poll loop that serialises its iterations with the commands' lazy
\* connect by taking the cache lock.
PollWakeLocked ==
    /\ op[Poller] = "poll" /\ pc[Poller] = "sleep"
    /\ lock = NoTask
    /\ lock' = Poller
    /\ sleeping' = None
    /\ pc' = [pc EXCEPT ![Poller] = "token"]
    /\ UNCHANGED <<envVars, guard, nextChan, started, histVars, trayText, facadeVars>>
    /\ UNCHANGED <<op, loaded, connRes, client, rpcRes, ret>>

\* The sleep is over: the next iteration of the loop.
PollWake ==
    /\ op[Poller] = "poll" /\ pc[Poller] = "sleep"
    /\ sleeping' = None
    /\ pc' = [pc EXCEPT ![Poller] = "token"]
    /\ UNCHANGED <<envVars, cacheVars, histVars, trayText, facadeVars>>
    /\ UNCHANGED <<op, loaded, connRes, client, rpcRes, ret>>

Next ==
    \/ DaemonStop
    \/ DaemonStart
    \/ TokenWrite
    \/ TokenRemove
    \/ \E t \in Tasks : StartCommand(t)
    \/ \E t \in Tasks : StartProbe(t)
    \/ \E t \in Tasks : GetClientLock(t)
    \/ \E t \in Tasks : LoadIpcToken(t)
    \/ \E t \in Tasks : ChannelConnect(t)
    \/ \E t \in Tasks : GetClientStore(t)
    \/ \E t \in Tasks : RpcSend(t)
    \/ \E t \in Tasks : RpcComplete(t)
    \/ \E t \in Tasks : FacadeReturn(t)
    \/ \E t \in Tasks : IsRunningConnected(t)
    \/ \E t \in Tasks : IsRunningReturn(t)
    \/ \E t \in Tasks : Finish(t)

Spec == Init /\ [][Next]_vars

(***************************************************************************)
(* FairSpec: the scheduling of the runtime.  A command that has been       *)
(* started is a spawned future: the runtime polls it whenever it can move  *)
(* on, and every await of a token read, a connect or a call comes back     *)
(* (with a result or an error), so each of its steps is weakly fair.       *)
(* tokio::sync::Mutex hands the lock to its waiters in the order they      *)
(* asked for it, so a waiter is not overtaken for ever: taking the lock is *)
(* strongly fair.  Nothing makes a user start a command, and nothing makes *)
(* the daemon or the token file change.                                    *)
(***************************************************************************)
TaskStep(t) ==
    \/ LoadIpcToken(t)
    \/ ChannelConnect(t)
    \/ GetClientStore(t)
    \/ RpcSend(t)
    \/ RpcComplete(t)
    \/ FacadeReturn(t)
    \/ IsRunningConnected(t)
    \/ IsRunningReturn(t)
    \/ Finish(t)

Fairness ==
    \A t \in Tasks : WF_vars(TaskStep(t)) /\ SF_vars(GetClientLock(t))

FairSpec == Spec /\ Fairness

(***************************************************************************)
(* PollSpec: the poll loop beside the commands of one task (the poll loop  *)
(* shares nothing with the commands, so one task's commands show whether   *)
(* either gets in the other's way).                                        *)
(***************************************************************************)
Foreground == {"ui1"}

PollNext ==
    \/ DaemonStop
    \/ DaemonStart
    \/ TokenWrite
    \/ TokenRemove
    \/ \E t \in Foreground : StartCommand(t)
    \/ \E t \in Foreground : StartProbe(t)
    \/ \E t \in Foreground : GetClientLock(t)
    \/ \E t \in Foreground \cup {Poller} : LoadIpcToken(t)
    \/ \E t \in Foreground \cup {Poller} : ChannelConnect(t)
    \/ \E t \in Foreground : GetClientStore(t)
    \/ \E t \in Foreground \cup {Poller} : RpcSend(t)
    \/ \E t \in Foreground \cup {Poller} : RpcComplete(t)
    \/ \E t \in Foreground : FacadeReturn(t)
    \/ \E t \in Foreground : IsRunningConnected(t)
    \/ \E t \in Foreground : IsRunningReturn(t)
    \/ \E t \in Foreground : Finish(t)
    \/ PollConnected
    \/ PollSetText
    \/ PollWake

PollSpec == Init /\ [][PollNext]_vars

\* The poll loop is a spawned future as well: each step of an iteration and
\* the end of the sleep happen once they can.
PollStep ==
    \/ LoadIpcToken(Poller)
    \/ ChannelConnect(Poller)
    \/ RpcSend(Poller)
    \/ RpcComplete(Poller)
    \/ PollConnected
    \/ PollSetText
    \/ PollWake

FairPollSpec ==
    /\ PollSpec
    /\ WF_vars(PollStep)
    /\ \A t \in Foreground : WF_vars(TaskStep(t)) /\ SF_vars(GetClientLock(t))

(***************************************************************************)
(* The facades of DaemonClient as functions of the daemon's reply.         *)
(*                                                                         *)
(* A reply is Ok(message) or Err(status), as the generated tonic client    *)
(* returns it.  Byte and transfer counts stay far below the u32 and u64    *)
(* limits for the inputs drawn here (transferred_bytes is never negative), *)
(* so `as u64` and `+=` are exact.                                         *)
(***************************************************************************)
\* Longest raw token-file contents drawn.
MaxTokenLen == 3

\* Longest transfer list drawn.
MaxTransfers == 2

\* Longest peer list drawn.
MaxPeers == 2

\* Largest transfer status drawn from the wire (the table knows 0..5).
MaxWireStatus == 6

\* Largest number a proto enum variant may have in the generated code.
MaxEnumTag == 2

IPC_TOKEN_HEADER == "x-goconnect-ipc-token"

\* Bytes a token file may hold: tab, LF, space, 'a', DEL, a byte above 127.
TokenBytes == {9, 10, 32, 97, 127, 195}

RawTokens == UNION {[1..n -> TokenBytes] : n \in 0..MaxTokenLen}

Payloads == {"GetStatusRequest", "Unit"}

\* tonic::Request::new: the message and no metadata.
NewRequest(message) == [message |-> message, metadata |-> {}]

\* self.token.parse::<MetadataValue<_>>() is Ok: every byte is a tab or is
\* at least 32 and not DEL.
IsValidMetadataValue(s) ==
    \A i \in 1..Len(s) : (s[i] >= 32 /\ s[i] # 127) \/ s[i] = 9

\* request.metadata_mut().insert(key, value)
MetadataInsert(md, key, value) ==
    {kv \in md : kv[1] # key} \cup {<<key, value>>}

\* add_auth that fails the call when the token does not encode.
add_auth_fail_closed(token, request) ==
    IF IsValidMetadataValue(token)
    THEN [request EXCEPT !.metadata = MetadataInsert(@, IPC_TOKEN_HEADER, token)]
    ELSE Err(InvalidResponse("invalid token"))

add_auth(token, request) ==
    IF IsValidMetadataValue(token)
    THEN [request EXCEPT !.metadata = MetadataInsert(@, IPC_TOKEN_HEADER, token)]
    ELSE request

(***************************************************************************)
(* Status and peers: the connection enums of the wire.                     *)
(***************************************************************************)
\* Enum fields arrive as i32: the variants' numbers and values around them.
WireEnums == (-1)..(MaxEnumTag + 1)

\* The numbers the generated proto module gives ConnectionStatus::Connected
\* and ConnectionType::Relay: an input of the facades here.
EnumTags(connected, relay) == [Connected |-> connected, Relay |-> relay]

WireStatusResponse(st) ==
    [status |-> st, virtual_ip |-> "10.0.0.1", active_peers |-> 2,
     current_network_name |-> "Team A"]

\* get_status that takes every non-zero status for connected.
get_status_nonzero(tags, reply) ==
    IF IsErr(reply)
    THEN Err(Rpc(reply.err[1]))
    ELSE LET status == reply.val[1]
         IN  Ok([connected |-> status.status # 0,
                 virtual_ip |-> status.virtual_ip,
                 active_peers |-> status.active_peers,
                 network_name |-> status.current_network_name])

get_status(tags, reply) ==
    IF IsErr(reply)
    THEN Err(Rpc(reply.err[1]))
    ELSE LET status == reply.val[1]
         IN  Ok([connected |-> status.status = tags.Connected,
                 virtual_ip |-> status.virtual_ip,
                 active_peers |-> status.active_peers,
                 network_name |-> status.current_network_name])

WirePeer(st, ct) ==
    [id |-> "p", name |-> "peer", display_name |-> "Peer",
     virtual_ip |-> "10.0.0.2", status |-> st, connection_type |-> ct,
     latency_ms |-> 7]

get_peers(tags, reply) ==
    IF IsErr(reply)
    THEN Err(Rpc(reply.err[1]))
    ELSE LET peers == reply.val[1]
         IN  Ok([i \in 1..Len(peers) |->
                    LET p == peers[i]
                    IN  [id |-> p.id,
                         name |-> p.name,
                         display_name |-> p.display_name,
                         virtual_ip |-> p.virtual_ip,
                         connected |-> p.status = tags.Connected,
                         is_relay |-> p.connection_type = tags.Relay,
                         latency_ms |-> p.latency_ms]])

(***************************************************************************)
(* Networks: create_network and join_network.  The daemon's reply carries  *)
(* the network as an optional nested message.                              *)
(***************************************************************************)
NetworkNames == {"", "Team A"}

NetworkIds == {"", "n1"}

InviteCodes == {"", "INV-1"}

WireNetwork(id, name) == [id |-> id, name |-> name]

\* proto::CreateNetworkResponse { network, invite_code }
WireCreateNetworkResponse(present, id, name, code) ==
    [network |-> IF present THEN Some(WireNetwork(id, name)) ELSE None,
     invite_code |-> code]

\* proto::JoinNetworkResponse { network }
WireJoinNetworkResponse(present, id, name) ==
    [network |-> IF present THEN Some(WireNetwork(id, name)) ELSE None]

\* create_network that takes a missing network for an empty one.
create_network_or_default(name, reply) ==
    IF IsErr(reply)
    THEN Err(Rpc(reply.err[1]))
    ELSE LET resp == reply.val[1]
             network == IF resp.network = None
                        THEN WireNetwork("", "")
                        ELSE resp.network[1]
         IN  Ok([id |-> network.id,
                 name |-> network.name,
                 invite_code |-> resp.invite_code])

create_network(name, reply) ==
    IF IsErr(reply)
    THEN Err(Rpc(reply.err[1]))
    ELSE LET resp == reply.val[1]
         IN  IF resp.network = None
             THEN Err(InvalidResponse("missing network"))
             ELSE LET network == resp.network[1]
                  IN  Ok([id |-> network.id,
                          name |-> network.name,
                          invite_code |-> resp.invite_code])

\* join_network that hands the caller's invite code back in the record.
join_network_echo(invite_code, reply) ==
    IF IsErr(reply)
    THEN Err(Rpc(reply.err[1]))
    ELSE LET resp == reply.val[1]
         IN  IF resp.network = None
             THEN Err(InvalidResponse("missing network"))
             ELSE LET network == resp.network[1]
                  IN  Ok([id |-> network.id,
                          name |-> network.name,
                          invite_code |-> invite_code])

join_network(invite_code, reply) ==
    IF IsErr(reply)
    THEN Err(Rpc(reply.err[1]))
    ELSE LET resp == reply.val[1]
         IN  IF resp.network = None
             THEN Err(InvalidResponse("missing network"))
             ELSE LET network == resp.network[1]
                  IN  Ok([id |-> network.id,
                          name |-> network.name,
                          invite_code |-> ""])

(***************************************************************************)
(* Transfers: the list mapping and the statistics folded from it.          *)
(***************************************************************************)
WireStatuses == (-1)..MaxWireStatus

ByteCounts == {0, 500, 1000}

WireTransfer(inc, st, bytes) ==
    [id |-> "t", peer_id |-> "p", filename |-> "f.bin", size_bytes |-> 2000,
     transferred_bytes |-> bytes, status |-> st, is_incoming |-> inc,
     error_message |-> IF st = 4 THEN "disk full" ELSE ""]

\* A reply of n transfers with the given directions, statuses and byte counts.
WireTransferList(n, inc, st, bytes) ==
    [i \in 1..n |-> WireTransfer(inc[i], st[i], bytes[i])]

Filters == {None, Some("active")}

\* The table with 1 taken for a running transfer.
TransferStatusShifted(status) ==
    CASE status = 0 -> "pending"
      [] status = 1 -> "active"
      [] status = 2 -> "active"
      [] status = 3 -> "completed"
      [] status = 4 -> "failed"
      [] status = 5 -> "cancelled"
      [] OTHER -> "unknown"

\* The table with a value beyond the known ones taken for a rejected transfer.
TransferStatusRejected(status) ==
    CASE status = 0 -> "pending"
      [] status = 1 -> "pending"
      [] status = 2 -> "active"
      [] status = 3 -> "completed"
      [] status = 4 -> "failed"
      [] status = 5 -> "cancelled"
      [] status = 6 -> "rejected"
      [] OTHER -> "unknown"

\* match t.status { 0 => .., 1 => .., .., _ => "unknown" }
TransferStatus(status) ==
    CASE status = 0 -> "pending"
      [] status = 1 -> "pending"
      [] status = 2 -> "active"
      [] status = 3 -> "completed"
      [] status = 4 -> "failed"
      [] status = 5 -> "cancelled"
      [] OTHER -> "unknown"

\* The closure of list_transfers: proto::Transfer to TransferInfo.
MapTransfer(t) ==
    [id |-> t.id,
     peer_id |-> t.peer_id,
     file_name |-> t.filename,
     file_size |-> t.size_bytes,
     transferred |-> t.transferred_bytes,
     status |-> TransferStatus(t.status),
     direction |-> IF t.is_incoming THEN "download" ELSE "upload",
     error |-> IF t.error_message = "" THEN None ELSE Some(t.error_message)]

\* list_transfers that applies its status and peer filters to the records.
list_transfers_filtered(status, peer_id, reply) ==
    IF IsErr(reply)
    THEN Err(Rpc(reply.err[1]))
    ELSE LET transfers == reply.val[1]
             all == [i \in 1..Len(transfers) |-> MapTransfer(transfers[i])]
             Keeps(t) == /\ status # None => t.status = status[1]
                         /\ peer_id # None => t.peer_id = peer_id[1]
         IN  Ok(SelectSeq(all, Keeps))

list_transfers(status, peer_id, reply) ==
    IF IsErr(reply)
    THEN Err(Rpc(reply.err[1]))
    ELSE LET transfers == reply.val[1]
         IN  Ok([i \in 1..Len(transfers) |-> MapTransfer(transfers[i])])

\* let mut stats = TransferStats { total_uploads: 0, .. }
ZeroStats(zero) ==
    [total_uploads |-> zero, total_downloads |-> zero,
     active_transfers |-> zero, completed_transfers |-> zero,
     failed_transfers |-> zero, total_bytes_sent |-> zero,
     total_bytes_received |-> zero]

\* The direction branch of the loop body.
CountDirection(stats, t) ==
    IF t.direction = "upload"
    THEN [stats EXCEPT !.total_uploads = @ + 1,
                       !.total_bytes_sent = @ + t.transferred]
    ELSE [stats EXCEPT !.total_downloads = @ + 1,
                       !.total_bytes_received = @ + t.transferred]

\* The status match with a cancelled transfer left uncounted.
CountStatusFailedOnly(stats, t) ==
    CASE t.status = "active" -> [stats EXCEPT !.active_transfers = @ + 1]
      [] t.status = "completed" -> [stats EXCEPT !.completed_transfers = @ + 1]
      [] t.status = "failed" -> [stats EXCEPT !.failed_transfers = @ + 1]
      [] OTHER -> stats

\* The status match of the loop body.
CountStatus(stats, t) ==
    CASE t.status = "active" -> [stats EXCEPT !.active_transfers = @ + 1]
      [] t.status = "completed" -> [stats EXCEPT !.completed_transfers = @ + 1]
      [] t.status \in {"failed", "cancelled", "rejected"} ->
            [stats EXCEPT !.failed_transfers = @ + 1]
      [] OTHER -> stats

\* for t in &transfers { ... }
RECURSIVE FoldTransfers(_, _)
FoldTransfers(transfers, stats) ==
    IF transfers = <<>>
    THEN stats
    ELSE FoldTransfers(Tail(transfers),
                       CountStatus(CountDirection(stats, Head(transfers)),
                                   Head(transfers)))

get_transfer_stats(reply) ==
    LET listed == list_transfers(None, None, reply)
    IN  IF IsErr(listed)
        THEN listed
        ELSE Ok(FoldTransfers(listed.val[1], ZeroStats(0)))

(***************************************************************************)
(* FacadeSpec: one facade function is applied to one drawn input, its      *)
(* result is taken, and the next one is applied.                           *)
(***************************************************************************)
CallAddAuth ==
    /\ fcall = NoCall
    /\ \E raw \in RawTokens, message \in Payloads :
        /\ fcall' = [fn |-> "add_auth", token |-> Trim(raw),
                     request |-> NewRequest(message)]
        /\ fret' = add_auth(Trim(raw), NewRequest(message))
    /\ UNCHANGED <<envVars, cacheVars, taskVars, histVars, pollVars>>

CallGetStatus ==
    /\ fcall = NoCall
    /\ \E connected \in 0..MaxEnumTag, relay \in 0..MaxEnumTag :
        \E reply \in {Ok(WireStatusResponse(st)) : st \in WireEnums}
                        \cup {Err("Internal")} :
            /\ fcall' = [fn |-> "get_status",
                         tags |-> EnumTags(connected, relay), reply |-> reply]
            /\ fret' = get_status(EnumTags(connected, relay), reply)
    /\ UNCHANGED <<envVars, cacheVars, taskVars, histVars, pollVars>>

CallGetPeers ==
    /\ fcall = NoCall
    /\ \E connected \in 0..MaxEnumTag, relay \in 0..MaxEnumTag :
        \E n \in 0..MaxPeers :
            \E st \in [1..n -> WireEnums], ct \in [1..n -> WireEnums] :
                \E reply \in {Ok([i \in 1..n |-> WirePeer(st[i], ct[i])]),
                              Err("Internal")} :
                    /\ fcall' = [fn |-> "get_peers",
                                 tags |-> EnumTags(connected, relay),
                                 reply |-> reply]
                    /\ fret' = get_peers(EnumTags(connected, relay), reply)
    /\ UNCHANGED <<envVars, cacheVars, taskVars, histVars, pollVars>>

CallListTransfers ==
    /\ fcall = NoCall
    /\ \E status \in Filters, peer_id \in Filters, n \in 0..MaxTransfers :
        \E inc \in [1..n -> BOOLEAN], st \in [1..n -> WireStatuses],
           bytes \in [1..n -> ByteCounts] :
            \E reply \in {Ok(WireTransferList(n, inc, st, bytes)),
                          Err("Unavailable")} :
                /\ fcall' = [fn |-> "list_transfers", status |-> status,
                             peer_id |-> peer_id, reply |-> reply]
                /\ fret' = list_transfers(status, peer_id, reply)
    /\ UNCHANGED <<envVars, cacheVars, taskVars, histVars, pollVars>>

CallGetTransferStats ==
    /\ fcall = NoCall
    /\ \E n \in 0..MaxTransfers :
        \E inc \in [1..n -> BOOLEAN], st \in [1..n -> WireStatuses],
           bytes \in [1..n -> ByteCounts] :
            \E reply \in {Ok(WireTransferList(n, inc, st, bytes)),
                          Err("Unavailable")} :
                /\ fcall' = [fn |-> "get_transfer_stats", reply |-> reply]
                /\ fret' = get_transfer_stats(reply)
    /\ UNCHANGED <<envVars, cacheVars, taskVars, histVars, pollVars>>

CallCreateNetwork ==
    /\ fcall = NoCall
    /\ \E name \in NetworkNames, present \in BOOLEAN, id \in NetworkIds,
          wname \in NetworkNames, code \in InviteCodes :
        \E reply \in {Ok(WireCreateNetworkResponse(present, id, wname, code)),
                      Err("Internal")} :
            /\ fcall' = [fn |-> "create_network", name |-> name, reply |-> reply]
            /\ fret' = create_network(name, reply)
    /\ UNCHANGED <<envVars, cacheVars, taskVars, histVars, pollVars>>

CallJoinNetwork ==
    /\ fcall = NoCall
    /\ \E invite_code \in InviteCodes, present \in BOOLEAN, id \in NetworkIds,
          wname \in NetworkNames :
        \E reply \in {Ok(WireJoinNetworkResponse(present, id, wname)),
                      Err("Internal")} :
            /\ fcall' = [fn |-> "join_network", invite_code |-> invite_code,
                         reply |-> reply]
            /\ fret' = join_network(invite_code, reply)
    /\ UNCHANGED <<envVars, cacheVars, taskVars, histVars, pollVars>>

\* The caller has taken the result.
CallDone ==
    /\ fcall # NoCall
    /\ fcall' = NoCall
    /\ fret' = Unset
    /\ UNCHANGED <<envVars, cacheVars, taskVars, histVars, pollVars>>

FacadeNext ==
    \/ CallAddAuth
    \/ CallGetStatus
    \/ CallGetPeers
    \/ CallListTransfers
    \/ CallGetTransferStats
    \/ CallCreateNetwork
    \/ CallJoinNetwork
    \/ CallDone

FacadeInit == Init /\ daemonUp /\ tokenFile # None

FacadeSpec == FacadeInit /\ [][FacadeNext]_vars

(***************************************************************************)
(* Properties of the connection cache and the liveness probe.              *)
(***************************************************************************)
\* get_client has returned to the command that called it.
GetClientReturned(t) ==
    op[t] = "cmd" /\ pc[t] \in {"call", "wait", "replied", "done"}

\* Two get_client calls, both issued while the cache was empty, one of them
\* while the other was inside get_client; both have returned.
ConcurrentFirstCalls(a, b) ==
    /\ a # b
    /\ GetClientReturned(a) /\ GetClientReturned(b)
    /\ cachedAtStart[a] = None /\ cachedAtStart[b] = None
    /\ a \in overlap[b] \/ b \in overlap[a]

Established(t) == IF IsOk(connRes[t]) THEN 1 ELSE 0

\* C1 (as stated): two concurrent first-time get_client calls perform exactly
\* one token-load-and-connect sequence in total and both receive the same
\* client.
C1_ExactlyOneSequence ==
    \A a, b \in Tasks :
        ConcurrentFirstCalls(a, b) =>
            /\ reads[a] + reads[b] = 1
            /\ conns[a] + conns[b] = 1
            /\ client[a] # None
            /\ client[a] = client[b]

\* C1 (amended): two concurrent first-time get_client calls establish at most
\* one connection between them, never run their token-load-and-connect
\* sequences at the same time, and callers that both receive a client receive
\* the cached one; when neither sequence fails, exactly one token read and one
\* connection attempt are made in total and both receive the same client.  A
\* failed sequence is not cached: the other caller then runs its own.
C1_OneConnectionUnlessFailed ==
    /\ \A a, b \in Tasks :
        ConcurrentFirstCalls(a, b) =>
            /\ Established(a) + Established(b) <= 1
            /\ (client[a] # None /\ client[b] # None) =>
                   client[a] = client[b] /\ client[a] = guard
            /\ (~IsErr(connRes[a]) /\ ~IsErr(connRes[b])) =>
                   /\ reads[a] + reads[b] = 1
                   /\ conns[a] + conns[b] = 1
                   /\ client[a] # None
                   /\ client[a] = client[b]
            /\ (IsErr(connRes[a]) /\ IsErr(connRes[b])) => guard = cachedAtStart[a]
    /\ \A a, b \in Tasks :
        (a # b /\ op[a] = "cmd" /\ op[b] = "cmd") =>
            ~(pc[a] \in {"token", "connect", "connected"}
              /\ pc[b] \in {"token", "connect", "connected"})

\* Two concurrent first callers, one connection, the same client for both.
C1_Witness ==
    \E a, b \in Tasks :
        /\ ConcurrentFirstCalls(a, b)
        /\ reads[a] + reads[b] = 1
        /\ conns[a] + conns[b] = 1
        /\ client[a] # None /\ client[a] = client[b]

\* C2: a get_client call issued once a client is cached returns that client,
\* reads no token and makes no connection attempt, and the cache keeps holding
\* that client.
C2_CachedClientReused ==
    \A t \in Tasks :
        (op[t] = "cmd" /\ cachedAtStart[t] # None) =>
            /\ guard = cachedAtStart[t]
            /\ reads[t] = 0 /\ conns[t] = 0
            /\ IsErr(ret[t]) => IsErr(rpcRes[t])
            /\ GetClientReturned(t) => client[t] = cachedAtStart[t]

\* A later call has returned with the client another call had stored.
C2_Witness ==
    \E t \in Tasks :
        /\ op[t] = "cmd" /\ pc[t] = "done" /\ IsOk(ret[t])
        /\ cachedAtStart[t] # None /\ client[t] = cachedAtStart[t]
        /\ nextChan = 2

ProbeFinished(t) == op[t] = "probe" /\ pc[t] = "done"

\* C3: every daemon_is_running invocation runs its own token load, then its
\* own connect, then its own status call (each step once, and only when the
\* step before succeeded), never on the cached client; it returns true only
\* if that connect and that status call succeeded, hence only if the daemon
\* was up at some point of the invocation, whatever the cache holds.
C3_ProbeIsFresh ==
    \A t \in Tasks :
        op[t] = "probe" =>
            /\ reads[t] = (IF pc[t] = "token" THEN 0 ELSE 1)
            /\ conns[t] <= 1 /\ rpcs[t] <= 1
            /\ conns[t] = 1 <=> (loaded[t] # None /\ pc[t] # "connect")
            /\ rpcs[t] = 1 <=> (IsOk(connRes[t]) /\ pc[t] \in {"wait", "replied", "done"})
            /\ client[t] # None => (client[t] # guard /\ client[t] = connRes[t].val)
            /\ (ProbeFinished(t) /\ ret[t] = Ok(TRUE)) =>
                   /\ IsOk(connRes[t]) /\ conns[t] = 1
                   /\ IsOk(rpcRes[t]) /\ rpcs[t] = 1
                   /\ sawUp[t]

\* A client is cached, the daemon has been down for the whole probe, and the
\* probe has answered false.
C3_Witness ==
    \E t \in Tasks :
        /\ ProbeFinished(t) /\ ret[t] = Ok(FALSE)
        /\ guard # None /\ ~daemonUp /\ ~sawUp[t]

\* C4: daemon_is_running never returns an error: it returns Ok(false) when the
\* token is unavailable, when the connection fails and when the status RPC
\* fails, and Ok(true) otherwise.
C4_ProbeSwallowsErrors ==
    \A t \in Tasks :
        op[t] = "probe" =>
            /\ ~IsErr(ret[t])
            /\ ProbeFinished(t) <=> IsOk(ret[t])
            /\ ProbeFinished(t) =>
                   ret[t] = Ok(IsOk(connRes[t]) /\ IsOk(rpcRes[t]))
            /\ (ProbeFinished(t) /\ IsErr(connRes[t])) =>
                   /\ connRes[t].err[1].variant \in {"TokenNotFound", "Connection"}
                   /\ ret[t] = Ok(FALSE)
            /\ (ProbeFinished(t) /\ IsErr(rpcRes[t])) => ret[t] = Ok(FALSE)

\* A probe whose connect succeeded and whose status RPC failed answered false.
C4_Witness ==
    \E t \in Tasks :
        /\ ProbeFinished(t) /\ IsOk(connRes[t]) /\ IsErr(rpcRes[t])
        /\ ret[t] = Ok(FALSE)

\* The facade call of a command has failed and the command has returned.
FacadeCallFailed(t) == op[t] = "cmd" /\ pc[t] = "done" /\ IsErr(rpcRes[t])

\* C5: when the facade call of a command fails (the daemon answers with an
\* error status or is unreachable), the command has sent that one RPC only,
\* has made no connection attempt beyond get_client's lazy one, returns the
\* error's text, and the cache still holds the client the call was made on.
C5_FailedCallKeepsCache ==
    \A t \in Tasks :
        FacadeCallFailed(t) =>
            /\ rpcs[t] = 1
            /\ conns[t] = (IF IsOk(connRes[t]) THEN 1 ELSE 0)
            /\ reads[t] = conns[t]
            /\ cachedAtStart[t] # None => conns[t] = 0
            /\ ret[t] = Err(<<"gRPC error", rpcRes[t].err[1].detail>>)
            /\ client[t] # None /\ guard = client[t]

\* A call on a client that was already cached failed: the daemon was gone.
C5_Witness ==
    \E t \in Tasks :
        /\ FacadeCallFailed(t)
        /\ cachedAtStart[t] # None
        /\ rpcRes[t] = Err(Rpc("Unavailable"))
        /\ guard = cachedAtStart[t]

\* C6: the cache lock is held only inside get_client's lazy initialisation
\* (token load, connect, store), and never by a task whose facade RPC is
\* being sent, is in flight or has just been answered.
C6_NoLockDuringRpc ==
    /\ \A t \in Tasks :
        pc[t] \in {"call", "wait", "replied", "done", "idle"} => lock # t
    /\ lock # NoTask =>
        /\ lock \in Tasks
        /\ op[lock] = "cmd"
        /\ pc[lock] \in {"token", "connect", "connected"}

\* The RPCs of two commands are in flight at the same time.
C6_Witness ==
    \E a, b \in Tasks :
        /\ a # b
        /\ op[a] = "cmd" /\ op[b] = "cmd"
        /\ pc[a] = "wait" /\ pc[b] = "wait"
        /\ lock = NoTask

\* The facade call of a command went out on a client whose daemon was gone
\* when the answer was due: the transport gave the status Unavailable.
TransportWasLost(t) ==
    /\ op[t] = "cmd" /\ pc[t] \in {"replied", "done"}
    /\ IsErr(rpcRes[t])
    /\ rpcRes[t].err[1].detail = "Unavailable"

\* C11 (as stated): a facade call whose connection is no longer usable fails
\* with the error kind TransportLost, which is neither RpcFailed (Rpc) nor
\* MissingField (InvalidResponse), so that the kind alone tells a lost
\* transport from an error status the daemon answered with.
C11_TransportLostKind ==
    \A t \in Tasks :
        TransportWasLost(t) =>
            /\ rpcRes[t].err[1].variant = "TransportLost"
            /\ rpcRes[t].err[1].variant \notin {"Rpc", "InvalidResponse"}

\* C12: one invocation of DaemonClient::connect reads the token at most once
\* and then makes at most one connection attempt, in that order; a failed
\* token read is returned at once as TokenNotFound with no connection attempt
\* made, a failed connection attempt is returned at once as Connection, and
\* neither step is run a second time.
C12_ConnectOnce ==
    \A t \in Tasks :
        /\ reads[t] <= 1 /\ conns[t] <= 1
        /\ pc[t] = "token" => (reads[t] = 0 /\ conns[t] = 0)
        /\ pc[t] = "connect" => (reads[t] = 1 /\ conns[t] = 0 /\ loaded[t] # None)
        /\ conns[t] = 1 => (reads[t] = 1 /\ loaded[t] # None /\ connRes[t] # Unset)
        /\ IsOk(connRes[t]) => (reads[t] = 1 /\ conns[t] = 1)
        /\ IsErr(connRes[t]) =>
            /\ pc[t] \in {"connected", "done"}
            /\ rpcs[t] = 0
            /\ connRes[t].err[1].variant \in {"TokenNotFound", "Connection"}
            /\ connRes[t].err[1].variant = "TokenNotFound" =>
                   (reads[t] = 1 /\ conns[t] = 0 /\ loaded[t] = None)
            /\ connRes[t].err[1].variant = "Connection" =>
                   (reads[t] = 1 /\ conns[t] = 1)
        /\ (op[t] = "cmd" /\ pc[t] = "done" /\ IsErr(connRes[t])) =>
               ret[t] = Err(ToString(connRes[t].err[1]))

\* A command came back with the token error: one read, no connection attempt,
\* although the daemon was listening.
C12_Witness ==
    \E t \in Tasks :
        /\ op[t] = "cmd" /\ pc[t] = "done"
        /\ connRes[t] = Err(TokenNotFound("read"))
        /\ ret[t] = Err(<<"Daemon not running or token file missing", "read">>)
        /\ reads[t] = 1 /\ conns[t] = 0
        /\ daemonUp

\* The connect of get_client's lazy initialisation has failed.
FailedInit(t) == op[t] = "cmd" /\ pc[t] = "connected" /\ IsErr(connRes[t])

\* C16: a get_client call whose lazy initialisation fails returns the error's
\* text, leaves the cache empty and releases the lock; a get_client call that
\* finds the cache empty then runs a token load and connect of its own, and
\* the cache never holds anything but the client of a connect that succeeded.
C16_FailureNotCached ==
    /\ [][\A t \in Tasks :
            (FailedInit(t) /\ pc'[t] # pc[t]) =>
                /\ pc'[t] = "done"
                /\ ret'[t] = Err(ToString(connRes[t].err[1]))
                /\ guard = None /\ guard' = None
                /\ lock = t /\ lock' = NoTask]_vars
    /\ [][\A t \in Tasks :
            (op[t] = "cmd" /\ pc[t] = "lock" /\ pc'[t] # pc[t] /\ guard = None) =>
                /\ pc'[t] = "token" /\ lock' = t
                /\ reads[t] = 0 /\ conns[t] = 0]_vars
    /\ [](guard # None =>
            /\ guard[1].channel \in 1..(nextChan - 1)
            /\ guard[1].token = Trim(TokenFileContents))

\* A first call failed and is back with its error; the next call has loaded
\* the token and connected by itself, and its client is the cached one.
C16_Witness ==
    \E a, b \in Tasks :
        /\ a # b
        /\ op[a] = "cmd" /\ pc[a] = "done" /\ IsErr(connRes[a]) /\ IsErr(ret[a])
        /\ op[b] = "cmd" /\ IsOk(connRes[b])
        /\ reads[b] = 1 /\ conns[b] = 1
        /\ guard = connRes[b].val /\ client[b] = guard
        /\ lock = NoTask

\* C18: get_client releases the cache lock on every path (a command that is
\* past get_client, or back with get_client's error, does not hold it); a
\* caller that finds the lock taken stays where it is until the holder's
\* connect is over; and, every await coming back and the lock being handed
\* out fairly, every get_client call returns: with a client to call on, or
\* with the error of its own connect.
C18_GetClientReturns ==
    /\ [](\A t \in Tasks :
            (GetClientReturned(t) \/ pc[t] = "idle") => lock # t)
    /\ [][\A t \in Tasks :
            (op[t] = "cmd" /\ pc[t] = "lock" /\ lock # NoTask) =>
                pc'[t] = "lock"]_vars
    /\ \A t \in Tasks :
            (op[t] = "cmd" /\ pc[t] = "lock") ~>
                (op[t] = "cmd" /\ pc[t] \in {"call", "done"})

\* A call that was issued while another call was connecting has returned
\* with the client that other call stored, without a connect of its own.
C18_Witness ==
    \E a, b \in Tasks :
        /\ a # b
        /\ a \in overlap[b] /\ cachedAtStart[b] = None
        /\ op[a] = "cmd" /\ conns[a] = 1 /\ IsOk(connRes[a])
        /\ op[b] = "cmd" /\ pc[b] = "call" /\ reads[b] = 0 /\ conns[b] = 0
        /\ client[b] = connRes[a].val
        /\ lock = NoTask

(***************************************************************************)
(* Properties of the status poll loop (PollSpec, FairPollSpec).            *)
(***************************************************************************)
\* Some step of a liveness probe or of the poll loop.
ProbeOrPollStep ==
    \/ \E t \in Tasks : (op[t] = "probe" \/ op'[t] = "probe") /\ pc'[t] # pc[t]
    \/ pc'[Poller] # pc[Poller]

\* C15: the poll loop never ends and never waits for anything but its own
\* awaits: it sleeps for 5 seconds after every iteration, whether that
\* iteration's connect and status call succeeded or failed, and then starts
\* the next one, for ever; it never holds the cache lock, so a get_client
\* call can take the lock whenever no other command holds it, wherever the
\* poll loop is in its iteration.
C15_PollingNeverBlocks ==
    /\ [](/\ lock # Poller
          /\ op[Poller] = "poll"
          /\ pc[Poller] \in {"token", "connect", "connected", "call", "wait",
                             "replied", "sleep"}
          /\ pc[Poller] = "sleep" <=> sleeping = Some(POLL_INTERVAL_SECS)
          /\ pc[Poller] # "sleep" <=> sleeping = None)
    /\ [](\A t \in Tasks :
            (op[t] = "cmd" /\ pc[t] = "lock" /\ lock \notin Tasks) =>
                ENABLED GetClientLock(t))
    /\ [][(pc[Poller] \in {"connected", "replied"} /\ pc'[Poller] # pc[Poller]
            /\ (IsErr(connRes[Poller]) \/ pc[Poller] = "replied")) =>
                (pc'[Poller] = "sleep" /\ lock' = lock)]_vars
    /\ []<>(pc[Poller] = "sleep")
    /\ []<>(pc[Poller] = "token")

\* An iteration has failed and the loop is in the next one, its status call
\* in flight, while a command holds the lock for its lazy connect.
C15_Witness ==
    \E t \in Tasks :
        /\ trayText = "Status: Daemon Stopped"
        /\ pc[Poller] = "wait"
        /\ op[t] = "cmd" /\ pc[t] = "connect" /\ lock = t

\* C17: no step of daemon_is_running and no step of the poll loop changes
\* the cache or its lock, whether the step succeeds or fails; both work on a
\* client of their own connect, never on the cached one, and the probe's
\* answer is that of its own connect and status call.
C17_ProbeAndPollLeaveCache ==
    /\ [][ProbeOrPollStep => (guard' = guard /\ lock' = lock)]_vars
    /\ [](\A t \in Procs :
            (op[t] \in {"probe", "poll"} /\ client[t] # None) =>
                (client[t] = connRes[t].val /\ conns[t] = 1))
    /\ [](\A t \in Tasks :
            ProbeFinished(t) =>
                ret[t] = Ok(IsOk(connRes[t]) /\ IsOk(rpcRes[t])))

\* A client is cached; a probe has failed and a poll iteration has failed,
\* and the cache still holds that client.
C17_Witness ==
    \E t \in Tasks :
        /\ ProbeFinished(t) /\ ret[t] = Ok(FALSE)
        /\ cachedAtStart[t] # None /\ guard = cachedAtStart[t]
        /\ trayText = "Status: Daemon Stopped" /\ pc[Poller] = "sleep"

(***************************************************************************)
(* Properties of the facade functions (checked under FacadeSpec).          *)
(***************************************************************************)
HasAuthHeader(request) ==
    \E kv \in request.metadata : kv[1] = IPC_TOKEN_HEADER

\* C7: add_auth returns, for every token and message, a request with the same
\* message and never an error; the request carries x-goconnect-ipc-token, with
\* the token as its value, exactly when the token parses as a metadata value,
\* and otherwise carries no authentication header.
C7_AddAuthDegrades ==
    fcall.fn = "add_auth" =>
        /\ DOMAIN fret = {"message", "metadata"}
        /\ fret.message = fcall.request.message
        /\ HasAuthHeader(fret) <=> IsValidMetadataValue(fcall.token)
        /\ IsValidMetadataValue(fcall.token) =>
               fret.metadata = {<<IPC_TOKEN_HEADER, fcall.token>>}
        /\ ~IsValidMetadataValue(fcall.token) => fret = fcall.request

\* A token with a line feed inside went out as a request without the header.
C7_Witness ==
    /\ fcall.fn = "add_auth"
    /\ fcall.token = <<97, 10, 97>>
    /\ fret = NewRequest(fcall.request.message)
    /\ ~HasAuthHeader(fret)

\* C8: list_transfers maps wire status 0 and 1 to "pending", 2 to "active",
\* 3 to "completed", 4 to "failed", 5 to "cancelled" and every other value,
\* negative ones included, to "unknown".
C8_TransferStatusTable ==
    (fcall.fn = "list_transfers" /\ IsOk(fcall.reply)) =>
        /\ IsOk(fret)
        /\ Len(fret.val[1]) = Len(fcall.reply.val[1])
        /\ \A i \in 1..Len(fcall.reply.val[1]) :
              LET wire == fcall.reply.val[1][i].status
                  label == fret.val[1][i].status
              IN  /\ wire \in {0, 1} <=> label = "pending"
                  /\ wire = 2 <=> label = "active"
                  /\ wire = 3 <=> label = "completed"
                  /\ wire = 4 <=> label = "failed"
                  /\ wire = 5 <=> label = "cancelled"
                  /\ (wire < 0 \/ wire > 5) <=> label = "unknown"

\* A negative status and status 1 in one reply: "unknown" and "pending".
C8_Witness ==
    /\ fcall.fn = "list_transfers" /\ IsOk(fcall.reply) /\ IsOk(fret)
    /\ Len(fret.val[1]) = 2
    /\ fcall.reply.val[1][1].status = -1 /\ fret.val[1][1].status = "unknown"
    /\ fcall.reply.val[1][2].status = 1 /\ fret.val[1][2].status = "pending"

\* C9: get_status reports connected exactly when the wire status equals the
\* Connected variant, and get_peers reports for each peer connected exactly
\* when its status equals Connected and is_relay exactly when its connection
\* type equals Relay; every other value, unknown ones included, gives false.
C9_ConnectionEnums ==
    /\ (fcall.fn = "get_status" /\ IsOk(fcall.reply)) =>
        /\ IsOk(fret)
        /\ fret.val[1].connected \in BOOLEAN
        /\ fret.val[1].connected <=>
               fcall.reply.val[1].status = fcall.tags.Connected
    /\ (fcall.fn = "get_peers" /\ IsOk(fcall.reply)) =>
        /\ IsOk(fret)
        /\ Len(fret.val[1]) = Len(fcall.reply.val[1])
        /\ \A i \in 1..Len(fcall.reply.val[1]) :
              /\ fret.val[1][i].connected <=>
                     fcall.reply.val[1][i].status = fcall.tags.Connected
              /\ fret.val[1][i].is_relay <=>
                     fcall.reply.val[1][i].connection_type = fcall.tags.Relay

\* A status that is not Connected, not zero and outside the variants: false.
C9_Witness ==
    /\ fcall.fn = "get_status" /\ IsOk(fcall.reply)
    /\ fcall.tags.Connected = 2
    /\ fcall.reply.val[1].status = MaxEnumTag + 1
    /\ fret.val[1].connected = FALSE

\* The transfers of a list whose field has one of the values, counted by hand.
CountField(ts, field, values) ==
    Cardinality({i \in 1..Len(ts) : ts[i][field] \in values})

\* The transferred bytes of the transfers of one direction, summed by hand.
RECURSIVE SumTransferred(_, _)
SumTransferred(ts, dir) ==
    IF ts = <<>>
    THEN 0
    ELSE (IF Head(ts).direction = dir THEN Head(ts).transferred ELSE 0)
             + SumTransferred(Tail(ts), dir)

\* C10: for a list of N transfers get_transfer_stats returns the sums done by
\* hand: uploads + downloads = N, bytes sent and received are the transferred
\* bytes of the uploads and of the downloads, active, completed and failed
\* count the transfers with those labels (failed also the cancelled and the
\* rejected ones), and active + completed + failed <= N.
C10_StatsAreManualSums ==
    (fcall.fn = "get_transfer_stats" /\ IsOk(fcall.reply)) =>
        LET wire == fcall.reply.val[1]
            ts == [i \in 1..Len(wire) |-> MapTransfer(wire[i])]
            N == Len(wire)
            s == fret.val[1]
        IN  /\ IsOk(fret)
            /\ s.total_uploads = CountField(ts, "direction", {"upload"})
            /\ s.total_downloads = CountField(ts, "direction", {"download"})
            /\ s.total_uploads + s.total_downloads = N
            /\ s.total_bytes_sent = SumTransferred(ts, "upload")
            /\ s.total_bytes_received = SumTransferred(ts, "download")
            /\ s.active_transfers = CountField(ts, "status", {"active"})
            /\ s.completed_transfers = CountField(ts, "status", {"completed"})
            /\ s.failed_transfers =
                   CountField(ts, "status", {"failed", "cancelled", "rejected"})
            /\ s.active_transfers + s.completed_transfers
                   + s.failed_transfers <= N

\* One completed upload of 1000 bytes and one active download at 500 bytes.
C10_Witness ==
    /\ fcall.fn = "get_transfer_stats"
    /\ fcall.reply = Ok(<<WireTransfer(FALSE, 3, 1000), WireTransfer(TRUE, 2, 500)>>)
    /\ fret = Ok([total_uploads |-> 1, total_downloads |-> 1,
                  active_transfers |-> 1, completed_transfers |-> 1,
                  failed_transfers |-> 0, total_bytes_sent |-> 1000,
                  total_bytes_received |-> 500])

\* C13: create_network and join_network, given a successful reply without
\* the nested network, fail with InvalidResponse("missing network") and
\* return no record; given one with the network, they return a record with
\* that network's id and name.
C13_MissingNetwork ==
    (fcall.fn \in {"create_network", "join_network"} /\ IsOk(fcall.reply)) =>
        LET resp == fcall.reply.val[1]
        IN  /\ resp.network = None =>
                /\ fret = Err(InvalidResponse("missing network"))
                /\ fret.val = <<>>
                /\ ToString(fret.err[1]) = <<"Invalid response", "missing network">>
            /\ resp.network # None =>
                /\ IsOk(fret)
                /\ fret.val[1].id = resp.network[1].id
                /\ fret.val[1].name = resp.network[1].name

\* A create reply with an invite code and no network: the call failed.
C13_Witness ==
    /\ fcall.fn = "create_network"
    /\ fcall.reply = Ok(WireCreateNetworkResponse(FALSE, "n1", "Team A", "INV-1"))
    /\ fret = Err(InvalidResponse("missing network"))

\* C14: the record join_network returns has an empty invite_code, whatever
\* invite code was passed in and whatever the daemon's successful reply
\* holds, and join_network returns a record for every reply with a network;
\* the record create_network returns has the invite code of the reply.
C14_JoinHidesInviteCode ==
    /\ (fcall.fn = "join_network" /\ IsOk(fcall.reply)
            /\ fcall.reply.val[1].network # None) =>
           (IsOk(fret) /\ fret.val[1].invite_code = "")
    /\ (fcall.fn = "join_network" /\ IsOk(fret)) =>
           fret.val[1].invite_code = ""
    /\ (fcall.fn = "create_network" /\ IsOk(fret)) =>
           fret.val[1].invite_code = fcall.reply.val[1].invite_code

\* Joined with the code INV-1: the record has the network and no code.
C14_Witness ==
    /\ fcall.fn = "join_network"
    /\ fcall.invite_code = "INV-1"
    /\ fret = Ok([id |-> "n1", name |-> "Team A", invite_code |-> ""])

\* C19: get_transfer_stats counts every transfer in exactly one direction
\* bucket and in at most one status bucket; list_transfers never gives the
\* label "rejected", so failed_transfers is the number of transfers with wire
\* status 4 or 5, active_transfers those with 2, completed_transfers those
\* with 3, and transfers with wire status 0, 1 or outside 0..5 are in no
\* status bucket.
C19_StatusBuckets ==
    /\ (fcall.fn = "list_transfers" /\ IsOk(fret)) =>
           \A i \in 1..Len(fret.val[1]) : fret.val[1][i].status # "rejected"
    /\ (fcall.fn = "get_transfer_stats" /\ IsOk(fcall.reply)) =>
           LET wire == fcall.reply.val[1]
               s == fret.val[1]
           IN  /\ IsOk(fret)
               /\ s.total_uploads = CountField(wire, "is_incoming", {FALSE})
               /\ s.total_downloads = CountField(wire, "is_incoming", {TRUE})
               /\ s.total_uploads + s.total_downloads = Len(wire)
               /\ s.failed_transfers = CountField(wire, "status", {4, 5})
               /\ s.active_transfers = CountField(wire, "status", {2})
               /\ s.completed_transfers = CountField(wire, "status", {3})
               /\ s.active_transfers + s.completed_transfers + s.failed_transfers
                      = Len(wire) - CountField(wire, "status", WireStatuses \ (2..5))

\* A cancelled download, and an upload whose status is beyond the table.
C19_Witness ==
    /\ fcall.fn = "get_transfer_stats"
    /\ fcall.reply = Ok(<<WireTransfer(TRUE, 5, 500),
                          WireTransfer(FALSE, MaxWireStatus, 0)>>)
    /\ fret = Ok([total_uploads |-> 1, total_downloads |-> 1,
                  active_transfers |-> 0, completed_transfers |-> 0,
                  failed_transfers |-> 1, total_bytes_sent |-> 0,
                  total_bytes_received |-> 500])

\* C20: list_transfers returns, for a given reply, the same list for every
\* combination of its status and peer_id arguments: one mapped record for
\* every transfer of the reply, in the reply's order.
C20_FiltersIgnored ==
    fcall.fn = "list_transfers" =>
        /\ \A status \in Filters, peer_id \in Filters :
              list_transfers(status, peer_id, fcall.reply) = fret
        /\ IsOk(fcall.reply) =>
              /\ IsOk(fret)
              /\ Len(fret.val[1]) = Len(fcall.reply.val[1])
              /\ \A i \in 1..Len(fcall.reply.val[1]) :
                    fret.val[1][i] = MapTransfer(fcall.reply.val[1][i])
        /\ IsErr(fcall.reply) => fret = Err(Rpc(fcall.reply.err[1]))

\* Asked for the active transfers of one peer: the completed transfer and
\* the pending one are both in the list, in the reply's order.
C20_Witness ==
    /\ fcall.fn = "list_transfers"
    /\ fcall.status = Some("active") /\ fcall.peer_id = Some("active")
    /\ fcall.reply = Ok(<<WireTransfer(TRUE, 3, 1000), WireTransfer(FALSE, 0, 0)>>)
    /\ Len(fret.val[1]) = 2
    /\ fret.val[1][1].status = "completed" /\ fret.val[1][2].status = "pending"

=============================================================================
